---- MODULE Spec2Model ----
(***************************************************************************)
(* frogproto.msglib: the ProtoRuntime class (schema loader, payload        *)
(* validator, wire codec and address lookups) as a state machine.          *)
(*                                                                         *)
(* The state is the five class attributes of ProtoRuntime, the module      *)
(* globals that load() mirrors them into, the position of a load() that is *)
(* in progress, and the observation made by the most recent call.          *)
(***************************************************************************)
EXTENDS Integers, Sequences, FiniteSets, TLC

VARIABLES PayloadEnum, MessageCategory, Messages, PROTOCOL_NAME,
          PROTOCOL_VERSION, g, pc, cur, last

clsvars == <<PayloadEnum, MessageCategory, Messages, PROTOCOL_NAME, PROTOCOL_VERSION>>
vars == <<PayloadEnum, MessageCategory, Messages, PROTOCOL_NAME,
          PROTOCOL_VERSION, g, pc, cur, last>>

(***************************************************************************)
(* Bounds of the inputs that are enumerated.                               *)
(***************************************************************************)
\* largest category / subcategory / message id tried by a decode or lookup
MaxId == 3
\* longest payload list handed to decode_message
MaxPayloadLen == 2
\* most keyword arguments handed to create_payload
MaxKwargs == 3

(***************************************************************************)
(* Strings.                                                                *)
(***************************************************************************)
\* str.startswith
StartsWith(s, p) == Len(s) >= Len(p) /\ SubSeq(s, 1, Len(p)) = p

\* field_name[len("PayloadEnum_"):] if field_name.startswith("PayloadEnum_") else field_name
KeyName(field_name) ==
    IF StartsWith(field_name, "PayloadEnum_")
    THEN SubSeq(field_name, Len("PayloadEnum_") + 1, Len(field_name))
    ELSE field_name

(***************************************************************************)
(* Python values.  Every value is a record with a tag t; v is an integer   *)
(* (the number, 0/1 for a bool, tenths for a float, a content code for str *)
(* and bytes, the member's code for an enum member).  An enum member also  *)
(* names its enum class: the class name and the load that created it.      *)
(***************************************************************************)
None == [kind |-> "None"]

IntV(n)   == [t |-> "int",   v |-> n, cls |-> "", src |-> ""]
BoolV(n)  == [t |-> "bool",  v |-> n, cls |-> "", src |-> ""]
FloatV(n) == [t |-> "float", v |-> n, cls |-> "", src |-> ""]
StrV(n)   == [t |-> "str",   v |-> n, cls |-> "", src |-> ""]
BytesV(n) == [t |-> "bytes", v |-> n, cls |-> "", src |-> ""]
EnumV(cls, src, n) == [t |-> "enum", v |-> n, cls |-> cls, src |-> src]

\* the byte string b"\xff", which is not valid UTF-8 (content code 9)
BadBytes == BytesV(9)

(***************************************************************************)
(* JSON values of a protocol description.  A mapping is an ordered list of *)
(* key/value pairs with distinct keys (a Python dict).                     *)
(***************************************************************************)
KV(k, v) == [k |-> k, v |-> v]
JDict(items) == [kind |-> "dict", items |-> items]
JList(items) == [kind |-> "list", items |-> items]
JInt == [kind |-> "int", items |-> <<>>]
JMissing == [kind |-> "missing", items |-> <<>>]
Field(name, datatype) == [name |-> name, datatype |-> datatype]

EnumsA == JDict(<<
    KV("Mode", <<KV("LOITER", 1), KV("RTH", 2), KV("_doc", 0)>>),
    KV("Color", <<KV("RED", 1)>>) >>)

EnumsB == JDict(<< KV("Mode", <<KV("LAND", 5)>>) >>)

\* the example protocol: Status.System.FLIGHT, Testing.System.TEXTMSG
ProtoA == [id |-> "A", PROTOCOL_NAME |-> "A", PROTOCOL_VERSION |-> 1,
    enums |-> EnumsA,
    messages |-> JDict(<<
        KV("Status", JDict(<<
            KV("System", JDict(<<
                KV("FLIGHT", JList(<<Field("airspeed", "int"), Field("PayloadEnum_Mode", "enum")>>)),
                KV("TEXT", JList(<<Field("textdata", "string")>>)) >>)),
            KV("Nav", JDict(<<
                KV("RAW", JList(<<Field("blob", "bytes"), Field("ok", "bool")>>)) >>)) >>)),
        KV("Testing", JDict(<<
            KV("System", JDict(<<
                KV("TEXTMSG", JList(<<Field("textdata", "string")>>)),
                KV("PING", JList(<<>>)) >>)) >>)) >>)]

\* a second well-formed protocol: other enums, categories in another order
ProtoB == [id |-> "B", PROTOCOL_NAME |-> "B", PROTOCOL_VERSION |-> 2,
    enums |-> EnumsB,
    messages |-> JDict(<<
        KV("Testing", JDict(<<
            KV("System", JDict(<<
                KV("TEXTMSG", JList(<<Field("textdata", "string")>>)) >>)) >>)),
        KV("Status", JDict(<<
            KV("Nav", JDict(<<
                KV("RATE", JList(<<Field("ratio", "float")>>)) >>)),
            KV("System", JDict(<<
                KV("FLIGHT", JList(<<Field("Mode", "enum"), Field("airspeed", "int")>>)) >>)) >>)) >>)]

\* a protocol with a field name that carries the PayloadEnum_ prefix next to
\* the field of the bare name, and with subcategories named _Hid and str
ProtoN == [id |-> "N", PROTOCOL_NAME |-> "N", PROTOCOL_VERSION |-> 3,
    enums |-> EnumsA,
    messages |-> JDict(<<
        KV("Status", JDict(<<
            KV("System", JDict(<<
                KV("BOTH", JList(<<Field("PayloadEnum_Mode", "enum"), Field("Mode", "int")>>)) >>)),
            KV("_Hid", JDict(<<
                KV("PING", JList(<<>>)) >>)),
            KV("str", JDict(<<
                KV("PONG", JList(<<>>)) >>)) >>)) >>)]

\* a protocol with an unknown datatype, an enum field without an enum, and a
\* category without subcategories
ProtoW == [id |-> "W", PROTOCOL_NAME |-> "W", PROTOCOL_VERSION |-> 3,
    enums |-> EnumsB,
    messages |-> JDict(<<
        KV("Status", JDict(<<
            KV("System", JDict(<<
                KV("U8", JList(<<Field("level", "uint8")>>)),
                KV("NOENUM", JList(<<Field("Shape", "enum")>>)) >>)) >>)),
        KV("Empty", JDict(<<>>)) >>)]

\* protocols that load() rejects before it assigns anything
ProtoNoMessages == [id |-> "F1", PROTOCOL_NAME |-> "F1", PROTOCOL_VERSION |-> 4,
    enums |-> EnumsB, messages |-> JMissing]
ProtoEmptyMessages == [id |-> "F2", PROTOCOL_NAME |-> "F2", PROTOCOL_VERSION |-> 4,
    enums |-> EnumsB, messages |-> JDict(<<>>)]
ProtoEnumsNotDict == [id |-> "F3", PROTOCOL_NAME |-> "F3", PROTOCOL_VERSION |-> 4,
    enums |-> JInt, messages |-> ProtoB.messages]
ProtoEnumNoMembers == [id |-> "F4", PROTOCOL_NAME |-> "F4", PROTOCOL_VERSION |-> 4,
    enums |-> JDict(<< KV("Mode", <<KV("LAND", 5)>>), KV("Color", <<KV("_doc", 0)>>) >>),
    messages |-> ProtoB.messages]

\* protocols that load() rejects while it builds the messages
ProtoCatNotDict == [id |-> "F5", PROTOCOL_NAME |-> "F5", PROTOCOL_VERSION |-> 5,
    enums |-> EnumsB,
    messages |-> JDict(<<
        KV("Testing", JDict(<<
            KV("System", JDict(<<
                KV("TEXTMSG", JList(<<Field("textdata", "string")>>)) >>)) >>)),
        KV("Status", JInt) >>)]
ProtoSubEmpty == [id |-> "F6", PROTOCOL_NAME |-> "F6", PROTOCOL_VERSION |-> 5,
    enums |-> EnumsB,
    messages |-> JDict(<< KV("Status", JDict(<< KV("System", JDict(<<>>)) >>)) >>)]
ProtoSubNotDict == [id |-> "F7", PROTOCOL_NAME |-> "F7", PROTOCOL_VERSION |-> 5,
    enums |-> EnumsB,
    messages |-> JDict(<< KV("Status", JDict(<< KV("System", JInt) >>)) >>)]
ProtoPayloadNotList == [id |-> "F8", PROTOCOL_NAME |-> "F8", PROTOCOL_VERSION |-> 5,
    enums |-> EnumsB,
    messages |-> JDict(<<
        KV("Status", JDict(<<
            KV("System", JDict(<<
                KV("FLIGHT", JList(<<Field("Mode", "enum")>>)),
                KV("TEXT", JInt) >>)) >>)) >>)]

Protocols == <<ProtoA, ProtoB, ProtoN, ProtoW, ProtoNoMessages, ProtoEmptyMessages,
               ProtoEnumsNotDict, ProtoEnumNoMembers, ProtoCatNotDict,
               ProtoSubEmpty, ProtoSubNotDict, ProtoPayloadNotList>>

\* what a caller may hand to load(): None, something that is neither a path
\* nor a dict, or a dict (a path is read and parsed into a dict)
NoSpec == [id |-> "", PROTOCOL_NAME |-> "", PROTOCOL_VERSION |-> 0,
           enums |-> JMissing, messages |-> JMissing]
Sources == <<[kind |-> "None", spec |-> NoSpec], [kind |-> "int", spec |-> NoSpec]>>
           \o [i \in 1..Len(Protocols) |-> [kind |-> "dict", spec |-> Protocols[i]]]

Range(s) == {s[i] : i \in 1..Len(s)}

(***************************************************************************)
(* ProtoRuntime._load_spec                                                 *)
(***************************************************************************)
Ok(value) == [ok |-> TRUE, err |-> "", value |-> value]
Raise(err) == [ok |-> FALSE, err |-> err, value |-> None]

_load_spec(source) ==
    IF source.kind = "None" THEN Raise("RuntimeError")
    ELSE IF source.kind = "dict" THEN Ok(source.spec)
    ELSE Raise("TypeError")

(***************************************************************************)
(* ProtoRuntime._build_payload_enum                                        *)
(***************************************************************************)
\* member_dict = {k: v for k, v in members.items() if not k.startswith("_")}
member_dict(members) == SelectSeq(members, LAMBDA m : ~StartsWith(m.k, "_"))

\* IntEnum(enum_name, member_dict), created by the load of protocol src
PayloadIntEnum(src, enum_name, members) ==
    [kind |-> "IntEnum", src |-> src, name |-> enum_name,
     members |-> [j \in 1..Len(members) |->
                     [name |-> members[j].k, value |-> members[j].v]]]

_build_payload_enum(src, enum_spec) ==
    IF \E i \in 1..Len(enum_spec.items) : member_dict(enum_spec.items[i].v) = <<>>
    THEN Raise("ValueError")
    ELSE Ok([kind |-> "PayloadEnum", src |-> src,
             enums |-> [i \in 1..Len(enum_spec.items) |->
                          PayloadIntEnum(src, enum_spec.items[i].k,
                                         member_dict(enum_spec.items[i].v))]])

(***************************************************************************)
(* ProtoRuntime._build_messages                                            *)
(***************************************************************************)
\* setattr(obj, name, val) on an attribute list
SetAttr(attrs, name, val) ==
    IF \E i \in 1..Len(attrs) : attrs[i].name = name
    THEN [i \in 1..Len(attrs) |->
             IF attrs[i].name = name THEN [name |-> name, val |-> val] ELSE attrs[i]]
    ELSE Append(attrs, [name |-> name, val |-> val])

\* sub_enum = IntEnum(sub_name, msg_members) with the attributes of lines 73-84
SubEnum(src, cat_name, cat_idx, sub_name, sub_idx, msg_defs) ==
    [kind |-> "IntEnum", src |-> src, name |-> sub_name,
     value_subcat |-> sub_idx, str |-> sub_name,
     category_name |-> cat_name, category_value |-> cat_idx,
     subcategory_name |-> sub_name, subcategory_value |-> sub_idx,
     members |-> [i \in 1..Len(msg_defs.items) |->
                     [name |-> msg_defs.items[i].k, value |-> i,
                      payload_def |-> msg_defs.items[i].v.items]],
     helpers |-> FALSE]

\* category_cls after the subcategory loop and lines 88-89
CategoryCls(src, cat_name, cat_idx, subcats) ==
    LET subs == [i \in 1..Len(subcats.items) |->
                   [name |-> subcats.items[i].k,
                    val |-> SubEnum(src, cat_name, cat_idx, subcats.items[i].k, i,
                                    subcats.items[i].v)]]
        a1 == SetAttr(subs, "value_cat", [kind |-> "int", i |-> cat_idx])
        a2 == SetAttr(a1, "str", [kind |-> "str", s |-> cat_name])
    IN [kind |-> "class", name |-> cat_name, attrs |-> a2]

\* line 63: isinstance(subcats, dict)
CategoryIsValid(subcats) == subcats.kind = "dict"

\* line 69: isinstance(msg_defs, dict) and msg_defs
SubcategoryIsValid(msg_defs) == msg_defs.kind = "dict" /\ Len(msg_defs.items) > 0

\* line 82: isinstance(payload_def, list)
PayloadDefIsValid(payload_def) == payload_def.kind = "list"

_build_messages(src, messages_spec) ==
    LET cats == messages_spec.items
        good(c) == /\ CategoryIsValid(c.v)
                   /\ \A j \in 1..Len(c.v.items) :
                        /\ SubcategoryIsValid(c.v.items[j].v)
                        /\ \A k \in 1..Len(c.v.items[j].v.items) :
                              PayloadDefIsValid(c.v.items[j].v.items[k].v)
    IN IF \E i \in 1..Len(cats) : ~good(cats[i])
       THEN Raise("ValueError")
       ELSE Ok([MessageCategory |->
                   [kind |-> "IntEnum", src |-> src, name |-> "MessageCategory",
                    members |-> [i \in 1..Len(cats) |-> [name |-> cats[i].k, value |-> i]]],
                Messages |->
                   [kind |-> "Messages", src |-> src,
                    attrs |-> [i \in 1..Len(cats) |->
                                 [name |-> cats[i].k,
                                  val |-> CategoryCls(src, cats[i].k, i, cats[i].v)]]]])

(***************************************************************************)
(* ProtoRuntime._attach_payload_helpers                                    *)
(***************************************************************************)
_attach_payload_helpers(messages) ==
    IF messages = None THEN messages
    ELSE [messages EXCEPT !.attrs =
            [i \in 1..Len(messages.attrs) |->
                IF StartsWith(messages.attrs[i].name, "_") THEN messages.attrs[i]
                ELSE [messages.attrs[i] EXCEPT !.val.attrs =
                        [j \in 1..Len(messages.attrs[i].val.attrs) |->
                            LET a == messages.attrs[i].val.attrs[j]
                            IN IF ~StartsWith(a.name, "_") /\ a.val.kind = "IntEnum"
                               THEN [a EXCEPT !.val.helpers = TRUE]
                               ELSE a]]]]

(***************************************************************************)
(* Objects a caller can hold: the members of the message enums.            *)
(***************************************************************************)
\* the member with index i of a subcategory enum; cls is its class
Member(sub_enum, i) ==
    [kind |-> "member",
     cls |-> [src |-> sub_enum.src, name |-> sub_enum.name,
              value_subcat |-> sub_enum.value_subcat,
              category_name |-> sub_enum.category_name,
              category_value |-> sub_enum.category_value],
     name |-> sub_enum.members[i].name,
     value |-> sub_enum.members[i].value,
     has_payload_def |-> TRUE,
     payload_def |-> sub_enum.members[i].payload_def]

\* an object that is no message member (it has no payload_def and its class
\* has no category_value)
NotAMessage == [kind |-> "object", has_payload_def |-> FALSE]

\* getattr(obj, name) on an attribute list; None when there is no such attribute
GetAttr(attrs, name) ==
    IF \E i \in 1..Len(attrs) : attrs[i].name = name
    THEN attrs[CHOOSE i \in 1..Len(attrs) : attrs[i].name = name].val
    ELSE None

\* every member reached as Messages.<category>.<subcategory>.<message>
MembersOf(messages) ==
    IF messages = None THEN {}
    ELSE UNION { UNION { IF cat.val.attrs[j].val.kind = "IntEnum"
                         THEN { Member(cat.val.attrs[j].val, k) :
                                  k \in 1..Len(cat.val.attrs[j].val.members) }
                         ELSE {} :
                         j \in 1..Len(cat.val.attrs) } :
                 cat \in Range(messages.attrs) }

(***************************************************************************)
(* ProtoRuntime._require_loaded                                            *)
(***************************************************************************)
_require_loaded(c) ==
    c.MessageCategory # None /\ c.Messages # None /\ c.PayloadEnum # None

(***************************************************************************)
(* ProtoRuntime.messageid / get_message_enum / message_str_from_id         *)
(***************************************************************************)
Triple(a, b, d) == [category |-> a, subcategory |-> b, msgtype |-> d]

messageid(c, msg) ==
    IF ~_require_loaded(c) THEN Raise("RuntimeError")
    ELSE IF msg.kind # "member" THEN Raise("ValueError")
    ELSE Ok(Triple(msg.cls.category_value, msg.cls.value_subcat, msg.value))

\* cls.MessageCategory(category_value): the category's name, or no name
CategoryNames(c, category_value) ==
    { m.name : m \in { x \in Range(c.MessageCategory.members) : x.value = category_value } }

\* the attributes that the loop over dir(category_class) stops at
SubcategoryMatches(category_class, subcategory_value) ==
    { a \in Range(category_class.attrs) :
        /\ ~StartsWith(a.name, "_")
        /\ a.val.kind = "IntEnum"
        /\ a.val.value_subcat = subcategory_value }

get_message_enum(c, category_value, subcategory_value, message_value) ==
    IF ~_require_loaded(c) THEN Raise("RuntimeError")
    ELSE IF CategoryNames(c, category_value) = {} THEN Raise("ValueError")
    ELSE LET category_name == CHOOSE n \in CategoryNames(c, category_value) : TRUE
             category_class == GetAttr(c.Messages.attrs, category_name)
         IN IF category_class = None THEN Raise("AttributeError")
            ELSE IF SubcategoryMatches(category_class, subcategory_value) = {}
                 THEN Raise("ValueError")
            ELSE LET subcategory_class ==
                        (CHOOSE a \in SubcategoryMatches(category_class, subcategory_value) : TRUE).val
                     hits == { i \in 1..Len(subcategory_class.members) :
                                 subcategory_class.members[i].value = message_value }
                 IN IF hits = {} THEN Raise("ValueError")
                    ELSE Ok(Member(subcategory_class, CHOOSE i \in hits : TRUE))

message_str_from_id(c, msg_id) ==
    IF ~_require_loaded(c) THEN Raise("RuntimeError")
    ELSE IF CategoryNames(c, msg_id.category) = {} THEN Raise("ValueError")
    ELSE LET category_name == CHOOSE n \in CategoryNames(c, msg_id.category) : TRUE
             category_class == GetAttr(c.Messages.attrs, category_name)
         IN IF category_class = None THEN Raise("AttributeError")
            ELSE IF SubcategoryMatches(category_class, msg_id.subcategory) = {}
                 THEN Raise("ValueError")
            ELSE LET subcategory_name ==
                        (CHOOSE a \in SubcategoryMatches(category_class, msg_id.subcategory) : TRUE).name
                     message_enum == GetAttr(category_class.attrs, subcategory_name)
                     hits == { i \in 1..Len(message_enum.members) :
                                 message_enum.members[i].value = msg_id.msgtype }
                 IN IF hits = {} THEN Raise("ValueError")
                    ELSE Ok([kind |-> "str",
                             s |-> category_name \o "." \o subcategory_name \o "."
                                   \o message_enum.members[CHOOSE i \in hits : TRUE].name])

(***************************************************************************)
(* type_mapping and isinstance                                             *)
(***************************************************************************)
\* the Python type each datatype string maps to
type_mapping ==
    [d \in {"int", "float", "string", "bool", "enum", "bytes"} |->
        CASE d = "int" -> "int"
          [] d = "float" -> "float"
          [] d = "string" -> "str"
          [] d = "bool" -> "bool"
          [] d = "enum" -> "IntEnum"
          [] d = "bytes" -> "bytes"]

\* isinstance(value, <builtin type>): bool and IntEnum are subclasses of int
IsInstance(value, type_name) ==
    CASE type_name = "int" -> value.t \in {"int", "bool", "enum"}
      [] type_name = "IntEnum" -> value.t = "enum"
      [] OTHER -> value.t = type_name

\* isinstance(value, enum_cls) for an enum class of PayloadEnum
IsEnumInstance(value, enum_cls) ==
    value.t = "enum" /\ value.cls = enum_cls.name /\ value.src = enum_cls.src

\* getattr(cls.PayloadEnum, key, None)
EnumClass(payload_enum, key) ==
    IF \E i \in 1..Len(payload_enum.enums) : payload_enum.enums[i].name = key
    THEN payload_enum.enums[CHOOSE i \in 1..Len(payload_enum.enums) :
                               payload_enum.enums[i].name = key]
    ELSE None

(***************************************************************************)
(* ProtoRuntime.create_payload                                             *)
(***************************************************************************)
\* field_defs: for each key the entry written last
field_defs(payload_def) ==
    [k \in { KeyName(payload_def[i].name) : i \in 1..Len(payload_def) } |->
        LET at == { i \in 1..Len(payload_def) : KeyName(payload_def[i].name) = k }
            i == CHOOSE x \in at : \A y \in at : y <= x
        IN [type |-> payload_def[i].datatype,
            is_enum |-> payload_def[i].datatype = "enum"]]

PayloadErr(err, msg, missing, extra) ==
    [ok |-> FALSE, err |-> err, msg |-> msg, missing |-> missing, extra |-> extra,
     plist |-> <<>>]

\* lines 207-213: the error for a wrong set of keys
FieldSetError(required_keys, provided_keys) ==
    LET missing == required_keys \ provided_keys
        extra == provided_keys \ required_keys
    IN IF missing # {}
       THEN PayloadErr("ValueError", "Missing required fields", missing, {})
       ELSE PayloadErr("ValueError", "Extra fields provided", {}, extra)

\* lines 222-233: what the check of one field raises; "" when it passes
FieldCheck(c, field_info, key, value) ==
    IF field_info.is_enum
    THEN LET enum_cls == EnumClass(c.PayloadEnum, key)
         IN IF enum_cls = None THEN <<"ValueError", "Enum class not found">>
            ELSE IF ~IsEnumInstance(value, enum_cls) THEN <<"TypeError", "expects an instance">>
            ELSE <<"", "">>
    ELSE IF field_info.type \notin DOMAIN type_mapping
         THEN <<"ValueError", "Unknown datatype">>
         ELSE IF ~IsInstance(value, type_mapping[field_info.type])
              THEN <<"TypeError", "expects type">>
              ELSE <<"", "">>

create_payload(c, enum_member, kwargs) ==
    IF ~_require_loaded(c) THEN PayloadErr("RuntimeError", "not loaded", {}, {})
    ELSE IF ~enum_member.has_payload_def
         THEN PayloadErr("ValueError", "No payload definition", {}, {})
    ELSE LET pd == enum_member.payload_def
             fd == field_defs(pd)
             key(i) == KeyName(pd[i].name)
             chk(i) == FieldCheck(c, fd[key(i)], key(i), kwargs[key(i)])
             bad == { i \in 1..Len(pd) : chk(i)[1] # "" }
         IN IF DOMAIN fd # DOMAIN kwargs THEN FieldSetError(DOMAIN fd, DOMAIN kwargs)
            ELSE IF bad # {}
                 THEN LET i == CHOOSE x \in bad : \A y \in bad : x <= y
                      IN PayloadErr(chk(i)[1], chk(i)[2], {}, {})
            ELSE [ok |-> TRUE, err |-> "", msg |-> "", missing |-> {}, extra |-> {},
                  plist |-> [i \in 1..Len(pd) |-> kwargs[key(i)]]]

(***************************************************************************)
(* ProtoRuntime.encode_message / decode_message                            *)
(***************************************************************************)
\* what msgpack writes for a Python value: an IntEnum member is written as
\* the integer it is; the other kinds keep their kind
Pack(value) == IF value.t = "enum" THEN IntV(value.v) ELSE value

\* msgpack.packb([category, subcategory, msgtype, payload]); framed says that
\* the bytes hold a four element array
packb(id, payload) ==
    [framed |-> TRUE, category |-> id.category, subcategory |-> id.subcategory,
     msgtype |-> id.msgtype, payload |-> [i \in 1..Len(payload) |-> Pack(payload[i])]]

encode_message(c, msg_enum, payload) ==
    IF ~_require_loaded(c) THEN Raise("RuntimeError")
    ELSE LET id == messageid(c, msg_enum)
         IN IF ~id.ok THEN id ELSE Ok(packb(id.value, payload))

\* enum_cls(value): the member whose code equals value
EnumLookup(enum_cls, value) ==
    LET code(m) == \/ value.t \in {"int", "bool", "enum"} /\ value.v = m.value
                   \/ value.t = "float" /\ value.v = 10 * m.value
        hits == { i \in 1..Len(enum_cls.members) : code(enum_cls.members[i]) }
    IN IF hits = {} THEN Raise("ValueError")
       ELSE Ok(EnumV(enum_cls.name, enum_cls.src,
                     enum_cls.members[CHOOSE i \in hits : \A j \in hits : i <= j].value))

\* lines 259-268: the conversion of one decoded value
DecodeField(c, field, value) ==
    IF field.datatype = "enum"
    THEN LET enum_cls == EnumClass(c.PayloadEnum, KeyName(field.name))
         IN IF enum_cls = None THEN Raise("Enum class not found")
            ELSE EnumLookup(enum_cls, value)
    ELSE IF field.datatype = "string" /\ value.t = "bytes"
         THEN IF value = BadBytes THEN Raise("UnicodeDecodeError")
              ELSE Ok(StrV(value.v))
    ELSE Ok(value)

DecodeErr(err, msg) ==
    [ok |-> FALSE, err |-> err, msg |-> msg, enum_member |-> None, payload_dict |-> <<>>]

\* line 254 accepts a payload list that is longer than the definition
PayloadLengthMatches_AtLeast(payload_def, payload_list) ==
    Len(payload_def) <= Len(payload_list)

\* line 254: len(payload_def) != len(payload_list) raises
PayloadLengthMatches(payload_def, payload_list) ==
    Len(payload_def) = Len(payload_list)

decode_message(c, data) ==
    IF ~_require_loaded(c) THEN DecodeErr("RuntimeError", "Protocol is not loaded")
    ELSE IF ~data.framed THEN DecodeErr("ValueError", "unpack")
    ELSE LET em == get_message_enum(c, data.category, data.subcategory, data.msgtype)
         IN IF ~em.ok THEN DecodeErr(em.err, "lookup")
            ELSE IF ~em.value.has_payload_def
                 THEN DecodeErr("ValueError", "No payload definition")
            ELSE LET pd == em.value.payload_def
                     conv(i) == DecodeField(c, pd[i], data.payload[i])
                     bad == { i \in 1..Len(pd) : ~conv(i).ok }
                     keys == { KeyName(pd[i].name) : i \in 1..Len(pd) }
                 IN IF ~PayloadLengthMatches(pd, data.payload)
                    THEN DecodeErr("ValueError", "Payload list length")
                    ELSE IF bad # {}
                         THEN LET e == conv(CHOOSE x \in bad : \A y \in bad : x <= y).err
                              IN IF e = "Enum class not found"
                                 THEN DecodeErr("ValueError", e)
                                 ELSE DecodeErr(e, "conversion")
                    ELSE [ok |-> TRUE, err |-> "", msg |-> "", enum_member |-> em.value,
                          payload_dict |->
                             [k \in keys |->
                                 LET at == { i \in 1..Len(pd) : KeyName(pd[i].name) = k }
                                 IN conv(CHOOSE x \in at : \A y \in at : y <= x).value]]

(***************************************************************************)
(* ProtoRuntime.load, statement by statement.  A class state c is the      *)
(* record of the five class attributes.                                    *)
(***************************************************************************)
ClassState == [PayloadEnum |-> PayloadEnum, MessageCategory |-> MessageCategory,
               Messages |-> Messages, PROTOCOL_NAME |-> PROTOCOL_NAME,
               PROTOCOL_VERSION |-> PROTOCOL_VERSION]

\* lines 96-102: the checks made before anything is built
LoadChecks(source) ==
    LET ls == _load_spec(source)
    IN IF ~ls.ok THEN ls
       ELSE IF ls.value.messages.kind # "dict" \/ Len(ls.value.messages.items) = 0
            THEN Raise("ValueError")
       ELSE IF ls.value.enums.kind \notin {"dict", "missing"}
            THEN Raise("ValueError")
       ELSE ls

\* spec.get("enums", {})
EnumSpecOf(spec) == IF spec.enums.kind = "missing" THEN JDict(<<>>) ELSE spec.enums

\* lines 96-103: the class state after cls.PayloadEnum = ..., or the error
LoadPayloadEnum(c, source) ==
    LET lc == LoadChecks(source)
    IN IF ~lc.ok THEN [raised |-> TRUE, err |-> lc.err, c |-> c]
       ELSE LET pe == _build_payload_enum(lc.value.id, EnumSpecOf(lc.value))
            IN IF ~pe.ok THEN [raised |-> TRUE, err |-> pe.err, c |-> c]
               ELSE [raised |-> FALSE, err |-> "",
                     c |-> [c EXCEPT !.PayloadEnum = pe.value]]

\* line 104: cls.MessageCategory, cls.Messages = cls._build_messages(...)
LoadMessages(c, spec) ==
    LET bm == _build_messages(spec.id, spec.messages)
    IN IF ~bm.ok THEN [raised |-> TRUE, err |-> bm.err, c |-> c]
       ELSE [raised |-> FALSE, err |-> "",
             c |-> [c EXCEPT !.MessageCategory = bm.value.MessageCategory,
                             !.Messages = bm.value.Messages]]

\* lines 105-106
LoadNameVersion(c, spec) ==
    [c EXCEPT !.PROTOCOL_NAME = [kind |-> "str", s |-> spec.PROTOCOL_NAME],
              !.PROTOCOL_VERSION = [kind |-> "int", i |-> spec.PROTOCOL_VERSION]]

\* line 107
LoadHelpers(c) == [c EXCEPT !.Messages = _attach_payload_helpers(c.Messages)]

\* lines 109-114: the module globals mirror the class attributes
LoadGlobals(c) ==
    [MessageCategory |-> c.MessageCategory, Messages |-> c.Messages,
     PayloadEnum |-> c.PayloadEnum, PROTOCOL_NAME |-> c.PROTOCOL_NAME,
     PROTOCOL_VERSION |-> c.PROTOCOL_VERSION]

\* the whole of load(source) from class state c: the class state it leaves,
\* whether it raised, and whether it reached the globals
load(c, source) ==
    LET s1 == LoadPayloadEnum(c, source)
    IN IF s1.raised THEN [raised |-> TRUE, err |-> s1.err, c |-> s1.c, done |-> FALSE]
       ELSE LET s2 == LoadMessages(s1.c, source.spec)
            IN IF s2.raised
               THEN [raised |-> TRUE, err |-> s2.err, c |-> s2.c, done |-> FALSE]
               ELSE [raised |-> FALSE, err |-> "",
                     c |-> LoadHelpers(LoadNameVersion(s2.c, source.spec)),
                     done |-> TRUE]

SetClass(c) ==
    /\ PayloadEnum' = c.PayloadEnum
    /\ MessageCategory' = c.MessageCategory
    /\ Messages' = c.Messages
    /\ PROTOCOL_NAME' = c.PROTOCOL_NAME
    /\ PROTOCOL_VERSION' = c.PROTOCOL_VERSION

\* no call has a result waiting for the caller
NoCall == [op |-> "none"]

LoadObs(i, raised, err, pre) ==
    [op |-> "load", source |-> i, raised |-> raised, err |-> err, pre |-> pre]

Init ==
    /\ PayloadEnum = None
    /\ MessageCategory = None
    /\ Messages = None
    /\ PROTOCOL_NAME = None
    /\ PROTOCOL_VERSION = None
    /\ g = [MessageCategory |-> None, Messages |-> None, PayloadEnum |-> None,
            PROTOCOL_NAME |-> None, PROTOCOL_VERSION |-> None]
    /\ pc = "idle"
    /\ cur = [source |-> 0, pre |-> None]
    /\ last = NoCall

(***************************************************************************)
(* The calls a program makes.                                              *)
(***************************************************************************)
\* values a caller passes as keyword arguments
Prims == {IntV(1), IntV(7), BoolV(1), FloatV(15), StrV(1), BytesV(1)}

\* a member of an enum class that no longer is (or never was) in PayloadEnum
StaleMember == EnumV("Mode", "stale", 1)

\* PayloadEnum.<enum>.<member> for every enum and member
PayloadEnumMembers(payload_enum) ==
    IF payload_enum = None THEN {}
    ELSE UNION { { EnumV(e.name, e.src, m.value) : m \in Range(e.members) } :
                 e \in Range(payload_enum.enums) }

Values == Prims \cup PayloadEnumMembers(PayloadEnum) \cup {StaleMember}

\* the keys a message declares
DeclaredKeys(msg) ==
    IF msg.has_payload_def
    THEN { KeyName(msg.payload_def[i].name) : i \in 1..Len(msg.payload_def) }
    ELSE {}

\* a key that no message declares
ExtraKeys == {"zzz"}

KwargsFor(msg) ==
    UNION { [K -> Values] :
            K \in { S \in SUBSET (DeclaredKeys(msg) \cup ExtraKeys) :
                      Cardinality(S) <= MaxKwargs } }

Callables == MembersOf(Messages) \cup {NotAMessage}

\* values found in decoded bytes
WireValues == {IntV(1), IntV(7), BoolV(1), StrV(1), BytesV(1), BadBytes}

RECURSIVE SeqsUpTo(_, _)
SeqsUpTo(S, n) ==
    IF n = 0 THEN {<<>>}
    ELSE LET shorter == SeqsUpTo(S, n - 1)
         IN shorter \cup { Append(q, x) : q \in { r \in shorter : Len(r) = n - 1 }, x \in S }

\* byte strings that do not hold a four element array
Unframed == [framed |-> FALSE, category |-> 0, subcategory |-> 0, msgtype |-> 0,
             payload |-> <<>>]

WireData ==
    { [framed |-> TRUE, category |-> a, subcategory |-> b, msgtype |-> d, payload |-> q] :
        a \in 0..MaxId, b \in 0..MaxId, d \in 0..MaxId,
        q \in SeqsUpTo(WireValues, MaxPayloadLen) } \cup {Unframed}

\* which loads the class attributes read by a call came from
Seen ==
    [PayloadEnum |-> IF PayloadEnum = None THEN "" ELSE PayloadEnum.src,
     MessageCategory |-> IF MessageCategory = None THEN "" ELSE MessageCategory.src,
     Messages |-> IF Messages = None THEN "" ELSE Messages.src,
     pc |-> pc]

\* ProtoRuntime.load(Sources[i]) run to its return or its exception
LoadCall(i) ==
    /\ LET r == load(ClassState, Sources[i])
       IN /\ SetClass(r.c)
          /\ g' = IF r.done THEN LoadGlobals(r.c) ELSE g
          /\ last' = LoadObs(i, r.raised, r.err, ClassState)
    /\ UNCHANGED <<pc, cur>>

\* ProtoRuntime.create_payload(msg, **kwargs)
CreatePayloadCall(msg, kwargs) ==
    /\ last' = [op |-> "create_payload", msg |-> msg, kwargs |-> kwargs, seen |-> Seen,
                res |-> create_payload(ClassState, msg, kwargs)]
    /\ UNCHANGED <<clsvars, g, pc, cur>>

\* ProtoRuntime.decode_message(data)
DecodeMessageCall(data) ==
    /\ last' = [op |-> "decode_message", data |-> data, seen |-> Seen,
                res |-> decode_message(ClassState, data)]
    /\ UNCHANGED <<clsvars, g, pc, cur>>

\* decode_message(encode_message(msg, create_payload(msg, **kwargs))), the
\* sequence of example_msglib.py
RoundTripCall(msg, kwargs) ==
    /\ LET created == create_payload(ClassState, msg, kwargs)
           encoded == encode_message(ClassState, msg, created.plist)
       IN /\ created.ok
          /\ encoded.ok
          /\ last' = [op |-> "roundtrip", msg |-> msg, kwargs |-> kwargs,
                      plist |-> created.plist, data |-> encoded.value,
                      res |-> decode_message(ClassState, encoded.value)]
    /\ UNCHANGED <<clsvars, g, pc, cur>>

\* messageid(msg), then both lookups of the address it returns
ResolveCall(msg) ==
    /\ LET id == messageid(ClassState, msg)
       IN /\ id.ok
          /\ last' = [op |-> "resolve", msg |-> msg, id |-> id.value,
                      member |-> get_message_enum(ClassState, id.value.category,
                                                  id.value.subcategory, id.value.msgtype),
                      path |-> message_str_from_id(ClassState, id.value)]
    /\ UNCHANGED <<clsvars, g, pc, cur>>

(***************************************************************************)
(* A program that makes one call at a time.                                *)
(***************************************************************************)
Load ==
    /\ last = NoCall
    /\ pc = "idle"
    /\ \E i \in 1..Len(Sources) : LoadCall(i)

CreatePayload ==
    /\ last = NoCall
    /\ \E msg \in Callables : \E kwargs \in KwargsFor(msg) : CreatePayloadCall(msg, kwargs)

DecodeMessage ==
    /\ last = NoCall
    /\ \E data \in WireData : DecodeMessageCall(data)

RoundTrip ==
    /\ last = NoCall
    /\ \E msg \in MembersOf(Messages) : \E kwargs \in KwargsFor(msg) : RoundTripCall(msg, kwargs)

Resolve ==
    /\ last = NoCall
    /\ \E msg \in MembersOf(Messages) : ResolveCall(msg)

\* the caller takes the result (or the exception) of the call it made
Return ==
    /\ last # NoCall
    /\ last' = NoCall
    /\ UNCHANGED <<clsvars, g, pc, cur>>

Next ==
    \/ Load
    \/ CreatePayload
    \/ DecodeMessage
    \/ RoundTrip
    \/ Resolve
    \/ Return

Spec == Init /\ [][Next]_vars

(***************************************************************************)
(* load() interleaved with the calls of another thread: one step for each  *)
(* statement of load() that assigns.                                       *)
(***************************************************************************)
\* lines 96-103
LoadStart ==
    /\ pc = "idle"
    /\ last = NoCall
    /\ \E i \in 1..Len(Sources) :
         LET r == LoadPayloadEnum(ClassState, Sources[i])
         IN /\ SetClass(r.c)
            /\ IF r.raised
               THEN /\ last' = LoadObs(i, TRUE, r.err, ClassState)
                    /\ UNCHANGED <<pc, cur>>
               ELSE /\ pc' = "L104"
                    /\ cur' = [source |-> i, pre |-> ClassState]
                    /\ UNCHANGED last
    /\ UNCHANGED g

\* line 104
LoadBuildMessages ==
    /\ pc = "L104"
    /\ last = NoCall
    /\ LET r == LoadMessages(ClassState, Sources[cur.source].spec)
       IN /\ SetClass(r.c)
          /\ IF r.raised
             THEN /\ last' = LoadObs(cur.source, TRUE, r.err, cur.pre)
                  /\ pc' = "idle"
                  /\ cur' = [source |-> 0, pre |-> None]
             ELSE /\ pc' = "L105"
                  /\ UNCHANGED <<cur, last>>
    /\ UNCHANGED g

\* lines 105-106
LoadSetNameVersion ==
    /\ pc = "L105"
    /\ SetClass(LoadNameVersion(ClassState, Sources[cur.source].spec))
    /\ pc' = "L107"
    /\ UNCHANGED <<g, cur, last>>

\* line 107
LoadAttachHelpers ==
    /\ pc = "L107"
    /\ SetClass(LoadHelpers(ClassState))
    /\ pc' = "L109"
    /\ UNCHANGED <<g, cur, last>>

\* lines 109-115
LoadSetGlobals ==
    /\ pc = "L109"
    /\ last = NoCall
    /\ g' = LoadGlobals(ClassState)
    /\ last' = LoadObs(cur.source, FALSE, "", cur.pre)
    /\ pc' = "idle"
    /\ cur' = [source |-> 0, pre |-> None]
    /\ UNCHANGED clsvars

\* the other thread calls with the keys the message declares, and decodes
\* short payloads addressed to the first categories
ThreadKwargsFor(msg) == [DeclaredKeys(msg) -> Values]

ThreadWireData ==
    { d \in WireData : /\ d.framed
                       /\ d.category \in 1..2 /\ d.subcategory \in 1..2 /\ d.msgtype \in 1..2
                       /\ \A i \in 1..Len(d.payload) : d.payload[i] \in {IntV(1), StrV(1)} }

ThreadCreatePayload ==
    /\ last = NoCall
    /\ \E msg \in MembersOf(Messages) : \E kwargs \in ThreadKwargsFor(msg) :
          CreatePayloadCall(msg, kwargs)

ThreadDecodeMessage ==
    /\ last = NoCall
    /\ \E data \in ThreadWireData : DecodeMessageCall(data)

NextConc ==
    \/ LoadStart
    \/ LoadBuildMessages
    \/ LoadSetNameVersion
    \/ LoadAttachHelpers
    \/ LoadSetGlobals
    \/ ThreadCreatePayload
    \/ ThreadDecodeMessage
    \/ Return

SpecConc == Init /\ [][NextConc]_vars

(***************************************************************************)
(* The properties.                                                         *)
(***************************************************************************)
Loaded == _require_loaded(ClassState)

\* Python's == on two values: numbers compare by value whatever their kind
PyEq(a, b) ==
    LET numeric == {"int", "bool", "enum", "float"}
        tenths(x) == IF x.t = "float" THEN x.v ELSE 10 * x.v
    IN IF a.t \in numeric /\ b.t \in numeric THEN tenths(a) = tenths(b)
       ELSE a.t = b.t /\ a.v = b.v

\* "Category.Subcategory.Message" of a message member
PathOf(m) == m.cls.category_name \o "." \o m.cls.name \o "." \o m.name

IdOf(m) == Triple(m.cls.category_value, m.cls.value_subcat, m.value)

\* C1: decode_message(encode_message(M, create_payload(M, **F))) returns
\* exactly (M, F) whenever create_payload accepts F: the same member, the
\* same keys, equal values, and for a field declared enum the same enum member.
C1_RoundTrip ==
    last.op = "roundtrip" =>
        /\ last.res.ok
        /\ last.res.enum_member = last.msg
        /\ DOMAIN last.res.payload_dict = DOMAIN last.kwargs
        /\ \A k \in DOMAIN last.kwargs : PyEq(last.res.payload_dict[k], last.kwargs[k])
        /\ \A i \in 1..Len(last.msg.payload_def) :
              last.msg.payload_def[i].datatype = "enum" =>
                 last.res.payload_dict[KeyName(last.msg.payload_def[i].name)]
                    = last.kwargs[KeyName(last.msg.payload_def[i].name)]

\* C2: a load that raises leaves PayloadEnum, MessageCategory, Messages,
\* PROTOCOL_NAME and PROTOCOL_VERSION exactly as they were before the call.
C2_LoadAtomic ==
    (last.op = "load" /\ last.raised) => ClassState = last.pre

\* C3: when the provided keys differ from the declared keys, create_payload
\* fails and its error carries exactly the missing names and exactly the
\* extra names, both in the same error when both exist.
C3_StrictFieldSet ==
    (/\ last.op = "create_payload"
     /\ Loaded
     /\ last.msg.has_payload_def
     /\ DOMAIN last.kwargs # DeclaredKeys(last.msg)) =>
        /\ ~last.res.ok
        /\ last.res.missing = DeclaredKeys(last.msg) \ DOMAIN last.kwargs
        /\ last.res.extra = DOMAIN last.kwargs \ DeclaredKeys(last.msg)

\* the one primitive kind a datatype names
ExactKind(datatype) == IF datatype = "string" THEN "str" ELSE datatype

\* C4: create_payload accepts a value for a field declared int, float, bool,
\* bytes or string only if the value is of exactly that primitive kind.
C4_NoWidening ==
    (last.op = "create_payload" /\ last.res.ok) =>
        \A i \in 1..Len(last.msg.payload_def) :
            last.msg.payload_def[i].datatype \in {"int", "float", "bool", "bytes", "string"} =>
                last.kwargs[KeyName(last.msg.payload_def[i].name)].t
                    = ExactKind(last.msg.payload_def[i].datatype)

\* C5: create_payload succeeds only if every field declared enum was given a
\* member of the enum bound to that field (not a plain integer, not a member
\* of another enum).
C5_EnumStrict ==
    (last.op = "create_payload" /\ last.res.ok) =>
        \A i \in 1..Len(last.msg.payload_def) :
            last.msg.payload_def[i].datatype = "enum" =>
                LET key == KeyName(last.msg.payload_def[i].name)
                IN /\ last.kwargs[key].t = "enum"
                   /\ last.kwargs[key].cls = key
                   /\ last.kwargs[key].src = PayloadEnum.src

\* C6: the triples of the messages are pairwise distinct, so are the dotted
\* paths, and for every message m get_message_enum(*messageid(m)) returns m
\* and message_str_from_id(messageid(m)) returns its dotted path.
C6_AddressBijection ==
    /\ \A m1, m2 \in MembersOf(Messages) :
          m1 # m2 => IdOf(m1) # IdOf(m2) /\ PathOf(m1) # PathOf(m2)
    /\ last.op = "resolve" =>
          /\ last.member.ok
          /\ last.member.value = last.msg
          /\ last.path.ok
          /\ last.path.value.s = PathOf(last.msg)

\* every field has one of the six datatypes and every enum field has an enum
\* registered under its key
WellTyped(spec) ==
    \A c \in Range(spec.messages.items) : \A s \in Range(c.v.items) :
    \A m \in Range(s.v.items) : \A f \in Range(m.v.items) :
        /\ f.datatype \in {"int", "float", "bool", "bytes", "string", "enum"}
        /\ f.datatype = "enum" =>
              \E e \in Range(EnumSpecOf(spec).items) : e.k = KeyName(f.name)

\* C7: load succeeds only for a well-typed protocol, so create_payload and
\* decode_message never fail with 'Enum class not found' or 'Unknown datatype'.
C7_WellTypedCatalog ==
    /\ (last.op = "load" /\ ~last.raised) => WellTyped(Sources[last.source].spec)
    /\ last.op \in {"create_payload", "decode_message"} =>
          last.res.msg \notin {"Enum class not found", "Unknown datatype"}

\* the members of the loaded catalog that a decoded triple addresses
Addressed(data) ==
    { m \in MembersOf(Messages) :
        IdOf(m) = Triple(data.category, data.subcategory, data.msgtype) }

\* C8: decode_message returns a result only if the decoded triple addresses a
\* message of the loaded catalog and the payload list has exactly as many
\* values as the message has fields; for an unknown triple or a payload list
\* of another length it raises and returns nothing.
C8_DecodeAcceptance ==
    last.op = "decode_message" =>
        /\ last.res.ok =>
              /\ last.data.framed
              /\ \E m \in Addressed(last.data) :
                    /\ Len(m.payload_def) = Len(last.data.payload)
                    /\ last.res.enum_member = m
                    /\ DOMAIN last.res.payload_dict = DeclaredKeys(m)
        /\ (\/ Addressed(last.data) = {}
            \/ \E m \in Addressed(last.data) : Len(m.payload_def) # Len(last.data.payload)) =>
              /\ ~last.res.ok
              /\ last.res.enum_member = None
              /\ last.res.payload_dict = <<>>

\* a decode that returned a result for a payload of two values
C8_Witness ==
    /\ last.op = "decode_message"
    /\ last.res.ok
    /\ Len(last.data.payload) = 2

\* some category or subcategory is not a non-empty mapping, or some message's
\* field specification is not a list
StructurallyInvalid(spec) ==
    \E c \in Range(spec.messages.items) :
        \/ c.v.kind # "dict"
        \/ Len(c.v.items) = 0
        \/ \E s \in Range(c.v.items) :
              \/ s.v.kind # "dict"
              \/ Len(s.v.items) = 0
              \/ \E m \in Range(s.v.items) : m.v.kind # "list"

\* C9: load fails with a schema error for every structurally invalid
\* protocol, and no such protocol becomes the loaded catalog.
C9_StructuralValidation ==
    /\ (last.op = "load" /\ StructurallyInvalid(Sources[last.source].spec)) =>
          last.raised /\ last.err = "ValueError"
    /\ Messages # None =>
          \A i \in 1..Len(Protocols) :
              Protocols[i].id = Messages.src => ~StructurallyInvalid(Protocols[i])

\* C10: a create_payload or decode_message that runs while a load is in
\* progress observes enums and messages that come from the same protocol.
C10_NoReloadRace ==
    (/\ last.op \in {"create_payload", "decode_message"}
     /\ last.seen.pc # "idle"
     /\ last.seen.PayloadEnum # ""
     /\ last.seen.Messages # "") =>
        /\ last.seen.PayloadEnum = last.seen.Messages
        /\ last.seen.MessageCategory = last.seen.Messages

====
